---- MODULE Spec2Model ----
(***************************************************************************)
(* Model of the three programs of the repository:                          *)
(*   task1  balance batch   (FuturesUnordered of get_balance futures)      *)
(*   task2  transfer batch  (FuturesUnordered of make_transfer futures)    *)
(*   task3  stream-triggered invoker (geyser subscription loop)            *)
(* task1 and task2 share the batch variables and are told apart by         *)
(* `program`; task3 has its own variables.  The ledger (RPC node) and the  *)
(* notification service are the environment: every response is a          *)
(* nondeterministic choice among the outcomes the call can have.           *)
(***************************************************************************)
EXTENDS Integers, Sequences, FiniteSets, TLC

\* Largest batch (wallets of task1, transfers of task2) explored.
MaxBatch == 3
\* Longest notification stream explored.
MaxStream == 5

VARIABLES
    program,     \* "task1" | "task2": which batch binary runs
    senderKeys,  \* task2 config: per sender key "ok" | "badLength" | "badKey"
    recipients,  \* config: per address "valid" | "malformed" (task1: the wallets)
    batch,       \* the batch: per operation "valid" | "malformed" (address)
    mainPc,      \* position of main: "parse" | "form" | "push" | "drain"
                 \* | "done" | "failed" | "panicked"
    pushed,      \* number of futures pushed into `tasks` so far
    tasks,       \* per operation: state of its future inside the FuturesUnordered
    resp,        \* per operation: ledger response waiting to be read by the future
    readyQ,      \* FuturesUnordered's ready-to-run queue (operation indices)
    yielded,     \* history: every item tasks.next() returned, in order
    reported,    \* history: every result printed by the drain loop, in order
    completion,  \* history: operations in the order their outcome was determined
    callLog,     \* history: per operation, the ledger calls it issued, in order
    ansLog,      \* history: per operation, the ledger responses it read, in order
    \* task3
    invPc,       \* "Config" | "Connecting" | "Subscribing" | "Idle" | "Executing"
                 \* | "Closed" | "Failed" (main returned Err) | "Panicked"
    invKey,      \* config: the sender key, "ok" | "badLength" | "badKey"
    invAddr,     \* config: the recipient address, "valid" | "malformed"
    feed,        \* the items the notification service emits, in order
    sent,        \* how many of them have reached the transport
    taken,       \* how many of them stream.next() has returned to the loop
    remoteClosed,\* the service has closed the stream after its last item
    xfer,        \* ledger call the triggered make_transfer is suspended on
    ledgerCalls, \* ledger calls of the invoker now in flight
    execs,       \* make_transfer executions now in flight
    execStarted, \* history: make_transfer executions started
    nReported,   \* history: transfer results printed
    lastOutcome, \* history: outcome of the last printed result
    errReported, \* history: stream errors printed
    connects,    \* history: connect attempts
    subscribes,  \* history: subscribe attempts
    setupErr,    \* history: "none" | "connect" | "subscribe": the setup step that failed
    xferLog,     \* history: ledger calls issued by the latest make_transfer, in order
    xferAns      \* history: ledger responses read by the latest make_transfer, in order

batchVars == <<program, senderKeys, recipients, batch, mainPc, pushed, tasks,
               resp, readyQ, yielded, reported, completion, callLog, ansLog>>

invVars == <<invPc, invKey, invAddr, feed, sent, taken, remoteClosed, xfer,
             ledgerCalls, execs, execStarted, nReported, lastOutcome, errReported,
             connects, subscribes, setupErr, xferLog, xferAns>>

vars == <<batchVars, invVars>>

N == Len(batch)
Ops == 1..N

\* Range of a sequence.
Range(s) == {s[k] : k \in 1..Len(s)}

\* Operation indices of a history sequence of records.
OpsOf(h) == [k \in 1..Len(h) |-> h[k].op]

---------------------------------------------------------------------------
(* The ledger calls and their outcomes.                                    *)

\* Outcomes of RpcClient::get_balance_with_commitment (task1).
BalanceOutcomes == {"ok", "err"}
\* Outcomes of get_latest_blockhash and of send_and_confirm_transaction.
CallOutcomes == {"ok", "err"}
\* Outcomes of get_signature_status: Err, Ok(Some(Ok)), Ok(Some(Err)), Ok(None).
StatusOutcomes == {"err", "someOk", "someErr", "none"}

\* The responses the ledger can give to the call a future is suspended on.
OutcomesFor(st) ==
    CASE st = "awaitBalance"   -> BalanceOutcomes
      [] st = "awaitBlockhash" -> CallOutcomes
      [] st = "awaitSend"      -> CallOutcomes
      [] st = "awaitStatus"    -> StatusOutcomes
      [] OTHER                 -> {}

\* The ledger call a future is suspended on in state st.
CallOf(st) ==
    CASE st = "awaitBalance"   -> "get_balance"
      [] st = "awaitBlockhash" -> "get_latest_blockhash"
      [] st = "awaitSend"      -> "send_and_confirm_transaction"
      [] st = "awaitStatus"    -> "get_signature_status"
      [] OTHER                 -> "none"

\* The response ends the operation: its outcome is determined by it.
IsFinal(st, r) == r = "err" \/ st \in {"awaitBalance", "awaitStatus"}

\* Variant: a missing status is printed as a successful one.
OutcomeNoneAsOk(r) ==
    CASE r = "someOk"  -> "Confirmed"
      [] r = "someErr" -> "ConfirmedWithError"
      [] r = "none"    -> "Confirmed"
      [] OTHER         -> "Balance"

\* match result.status { Some(Ok) | Some(Err(e)) | None }
Outcome(r) ==
    CASE r = "someOk"  -> "Confirmed"
      [] r = "someErr" -> "ConfirmedWithError"
      [] r = "none"    -> "StatusUnknown"
      [] OTHER         -> "Balance"

---------------------------------------------------------------------------
(* Polling one future: what a poll of operation i returns.                 *)
(* "pending": the future suspended on a (new) ledger call;                 *)
(* "ok" / "err": Poll::Ready(Ok(_)) / Poll::Ready(Err(_));                 *)
(* "panic": an .expect() on an Err unwinds through the poll.               *)

\* Variant: the future is Ready at its first poll, before any response.
PollBalanceEager(st, in, r) ==
    CASE st = "created" /\ in = "malformed" -> [ret |-> "err", next |-> "done"]
      [] st = "created" /\ in = "valid"     -> [ret |-> "ok", next |-> "done"]
      [] OTHER                              -> [ret |-> "pending", next |-> st]

\* task1 get_balance: Pubkey::from_str(..)? then the balance call .await?
PollBalance(st, in, r) ==
    CASE st = "created" /\ in = "malformed" -> [ret |-> "err", next |-> "done"]
      [] st = "created" /\ in = "valid"     -> [ret |-> "pending", next |-> "awaitBalance"]
      [] st = "awaitBalance" /\ r = "ok"    -> [ret |-> "ok", next |-> "done"]
      [] st = "awaitBalance" /\ r = "err"   -> [ret |-> "err", next |-> "done"]
      [] OTHER                              -> [ret |-> "pending", next |-> st]

\* Variant: the transaction is sent although the blockhash fetch failed.
PollTransferUncheckedBlockhash(st, in, r) ==
    CASE st = "created"                      -> [ret |-> "pending", next |-> "awaitBlockhash"]
      [] st = "awaitBlockhash"               -> [ret |-> "pending", next |-> "awaitSend"]
      [] st = "awaitSend" /\ r = "ok"       -> [ret |-> "pending", next |-> "awaitStatus"]
      [] st = "awaitStatus" /\ r \in {"someOk", "someErr", "none"}
                                             -> [ret |-> "ok", next |-> "done"]
      [] st \in {"awaitSend", "awaitStatus"} /\ r = "err"
                                             -> [ret |-> "panic", next |-> st]
      [] OTHER                               -> [ret |-> "pending", next |-> st]

\* task2 make_transfer: blockhash, send_and_confirm, signature status,
\* each followed by .expect(..).
PollTransfer(st, in, r) ==
    CASE st = "created"                      -> [ret |-> "pending", next |-> "awaitBlockhash"]
      [] st = "awaitBlockhash" /\ r = "ok"  -> [ret |-> "pending", next |-> "awaitSend"]
      [] st = "awaitSend" /\ r = "ok"       -> [ret |-> "pending", next |-> "awaitStatus"]
      [] st = "awaitStatus" /\ r \in {"someOk", "someErr", "none"}
                                             -> [ret |-> "ok", next |-> "done"]
      [] st \in {"awaitBlockhash", "awaitSend", "awaitStatus"} /\ r = "err"
                                             -> [ret |-> "panic", next |-> st]
      [] OTHER                               -> [ret |-> "pending", next |-> st]

PollFuture(i) ==
    IF program = "task1"
    THEN PollBalance(tasks[i], batch[i], resp[i])
    ELSE PollTransfer(tasks[i], batch[i], resp[i])

---------------------------------------------------------------------------
(* FuturesUnordered.                                                       *)

\* Variant: a new or woken task is linked at the head of the queue.
EnqueueAtHead(q, i) == IF i \in Range(q) THEN q ELSE <<i>> \o q

\* A new or woken task is linked at the tail of the ready-to-run queue.
Enqueue(q, i) == IF i \in Range(q) THEN q ELSE Append(q, i)

\* Variant: an Err item is skipped and the drain goes on.
DrainedErrContinue(i) == [pc |-> "drain", q |-> Tail(readyQ)]

\* `let result = result?;` on an Err item: main returns the error.  The pool
\* is dropped with it, so the futures still in it are never polled again and
\* keep the state they were dropped in.
DrainedErr(i) == [pc |-> "failed", q |-> <<>>]

\* main has stopped draining: returned Ok(()), returned Err, or unwound.
Ended == mainPc \in {"done", "failed", "panicked"}

---------------------------------------------------------------------------
\* The invoker is a separate binary: it is not running during a batch run.
InvokerOff ==
    /\ invPc = "off" /\ invKey = "ok" /\ invAddr = "valid"
    /\ xferLog = <<>> /\ xferAns = <<>>
    /\ feed = <<>> /\ sent = 0 /\ taken = 0
    /\ remoteClosed = FALSE /\ xfer = "none" /\ ledgerCalls = 0 /\ execs = 0
    /\ execStarted = 0 /\ nReported = 0 /\ lastOutcome = "none"
    /\ errReported = 0 /\ connects = 0 /\ subscribes = 0 /\ setupErr = "none"

\* Sequences over S of length at most n.
SeqsUpTo(S, n) == UNION {[1..k -> S] : k \in 0..n}

\* task1 starts with the wallets of its config, which it does not validate;
\* task2 starts with parse_yaml on the two lists of its config.
InitBatch ==
    /\ program \in {"task1", "task2"}
    /\ recipients \in SeqsUpTo({"valid", "malformed"}, MaxBatch)
    /\ IF program = "task1"
       THEN /\ senderKeys = <<>>
            /\ batch = recipients
            /\ mainPc = "push"
       ELSE /\ senderKeys \in SeqsUpTo({"ok", "badLength", "badKey"}, MaxBatch)
            /\ batch = <<>>
            /\ mainPc = "parse"
    /\ pushed = 0
    /\ tasks = [i \in 1..Len(batch) |-> "unpushed"]
    /\ resp = [i \in 1..Len(batch) |-> "nothing"]
    /\ readyQ = <<>>
    /\ yielded = <<>>
    /\ reported = <<>>
    /\ completion = <<>>
    /\ callLog = [i \in 1..Len(batch) |-> <<>>]
    /\ ansLog = [i \in 1..Len(batch) |-> <<>>]
    /\ InvokerOff

\* task2 parse_yaml: assert_eq!(item.len(), 64) for every sender key, then
\* assert_eq! on the lengths of the two lists; a failed assertion panics.
ParseYaml ==
    /\ mainPc = "parse"
    /\ mainPc' = IF \/ \E k \in 1..Len(senderKeys) : senderKeys[k] = "badLength"
                    \/ Len(senderKeys) # Len(recipients)
                 THEN "panicked" ELSE "form"
    /\ UNCHANGED <<program, senderKeys, recipients, batch, pushed, tasks, resp,
                   readyQ, yielded, reported, completion, callLog, ansLog, invVars>>

\* task2 form_transfers: Keypair::from_bytes(..).expect(..) and
\* Pubkey::from_str(..).expect(..) on every zipped pair, then the Vec<Transfer>.
FormTransfers ==
    /\ mainPc = "form"
    /\ IF \E k \in 1..Len(senderKeys) : senderKeys[k] = "badKey" \/ recipients[k] = "malformed"
       THEN /\ mainPc' = "panicked"
            /\ UNCHANGED <<batch, tasks, resp, callLog, ansLog>>
       ELSE /\ mainPc' = "push"
            /\ batch' = [k \in 1..Len(senderKeys) |-> "valid"]
            /\ tasks' = [k \in 1..Len(senderKeys) |-> "unpushed"]
            /\ resp' = [k \in 1..Len(senderKeys) |-> "nothing"]
            /\ callLog' = [k \in 1..Len(senderKeys) |-> <<>>]
            /\ ansLog' = [k \in 1..Len(senderKeys) |-> <<>>]
    /\ UNCHANGED <<program, senderKeys, recipients, pushed, readyQ, yielded,
                   reported, completion, invVars>>

\* for x in &batch { tasks.push(Box::pin(op(x, &client))) }: one iteration.
\* The future is created lazily: nothing of it runs before its first poll.
Push ==
    /\ mainPc = "push"
    /\ pushed < N
    /\ pushed' = pushed + 1
    /\ tasks' = [tasks EXCEPT ![pushed + 1] = "created"]
    /\ readyQ' = Enqueue(readyQ, pushed + 1)
    \* a malformed address fixes the operation's outcome from the start
    /\ completion' = IF program = "task1" /\ batch[pushed + 1] = "malformed"
                     THEN Append(completion, pushed + 1) ELSE completion
    /\ UNCHANGED <<program, senderKeys, recipients, batch, mainPc, resp, yielded,
                   reported, callLog, ansLog, invVars>>

\* Variant: the drain begins as soon as one operation has been pushed.
EndPushEarly ==
    /\ mainPc = "push"
    /\ pushed >= 1 \/ N = 0
    /\ mainPc' = "drain"
    /\ UNCHANGED <<program, senderKeys, recipients, batch, pushed, tasks, resp, readyQ,
                   yielded, reported, completion, callLog, ansLog, invVars>>

\* The for loop is over; main enters `while let Some(result) = tasks.next().await`.
EndPush ==
    /\ mainPc = "push"
    /\ pushed = N
    /\ mainPc' = "drain"
    /\ UNCHANGED <<program, senderKeys, recipients, batch, pushed, tasks, resp, readyQ,
                   yielded, reported, completion, callLog, ansLog, invVars>>

\* Inside tasks.next().await: poll_next takes the head of the ready-to-run
\* queue and polls that future once.  Ready(Ok) is yielded and printed by the
\* loop body; Ready(Err) is yielded and `result?` returns it from main,
\* dropping the pool; a panic unwinds through next() and main and ends the
\* process, the panicking future keeping the response it failed on.
PollTask ==
    /\ mainPc = "drain"
    /\ readyQ # <<>>
    /\ LET i == Head(readyQ)
           p == PollFuture(i)
       IN  \* the future reads the response it was woken for, if any, and
           \* issues its next ledger call when it suspends in a new state
        /\ ansLog' = IF resp[i] = "nothing" THEN ansLog
                     ELSE [ansLog EXCEPT ![i] = Append(@, resp[i])]
        /\ callLog' = IF p.ret = "pending" /\ p.next # tasks[i]
                      THEN [callLog EXCEPT ![i] = Append(@, CallOf(p.next))]
                      ELSE callLog
        /\ CASE p.ret = "pending" ->
                  /\ tasks' = [tasks EXCEPT ![i] = p.next]
                  /\ resp' = [resp EXCEPT ![i] = "nothing"]
                  /\ readyQ' = Tail(readyQ)
                  /\ UNCHANGED <<mainPc, yielded, reported>>
             [] p.ret = "ok" ->
                  /\ tasks' = [tasks EXCEPT ![i] = p.next]
                  /\ resp' = [resp EXCEPT ![i] = "nothing"]
                  /\ readyQ' = Tail(readyQ)
                  /\ yielded' = Append(yielded, [op |-> i, res |-> "ok"])
                  /\ reported' = Append(reported, [op |-> i, outcome |-> Outcome(resp[i])])
                  /\ UNCHANGED mainPc
             [] p.ret = "err" ->
                  /\ tasks' = [tasks EXCEPT ![i] = p.next]
                  /\ resp' = [resp EXCEPT ![i] = "nothing"]
                  /\ yielded' = Append(yielded, [op |-> i, res |-> "err"])
                  /\ mainPc' = DrainedErr(i).pc
                  /\ readyQ' = DrainedErr(i).q
                  /\ UNCHANGED reported
             [] OTHER ->
                  /\ mainPc' = "panicked"
                  /\ readyQ' = <<>>
                  /\ UNCHANGED <<tasks, resp, yielded, reported>>
    /\ UNCHANGED <<program, senderKeys, recipients, batch, pushed, completion, invVars>>

\* The ledger answers the call operation i is suspended on; the response
\* wakes the future, which links it into the ready-to-run queue.
RpcRespond ==
    \E i \in Ops :
        /\ mainPc = "drain"
        /\ resp[i] = "nothing"
        /\ i \notin Range(readyQ)
        /\ \E r \in OutcomesFor(tasks[i]) :
              /\ resp' = [resp EXCEPT ![i] = r]
              /\ completion' = IF IsFinal(tasks[i], r)
                               THEN Append(completion, i) ELSE completion
        /\ readyQ' = Enqueue(readyQ, i)
        /\ UNCHANGED <<program, senderKeys, recipients, batch, mainPc, pushed, tasks,
                       yielded, reported, callLog, ansLog, invVars>>

\* The pool is empty: next() returns None, the loop ends, main returns Ok(()).
DrainEnd ==
    /\ mainPc = "drain"
    /\ \A i \in Ops : tasks[i] = "done"
    /\ mainPc' = "done"
    /\ UNCHANGED <<program, senderKeys, recipients, batch, pushed, tasks, resp, readyQ,
                   yielded, reported, completion, callLog, ansLog, invVars>>

NextBatch ==
    ParseYaml \/ FormTransfers \/ Push \/ EndPush \/ PollTask \/ RpcRespond \/ DrainEnd

SpecBatch == InitBatch /\ [][NextBatch]_vars

---------------------------------------------------------------------------
(* task3: the stream-triggered invoker.                                    *)

Kinds == {"BlockMeta", "Other", "Error"}

\* The items on the transport that the loop has not read yet.
Unread == SubSeq(feed, taken + 1, sent)

\* Variant: the message kind is not looked at.
QualifiesAnyMessage(item) == item \in {"BlockMeta", "Other"}

\* if let Some(UpdateOneof::BlockMeta(_)) = msg.update_oneof
Qualifies(item) == item = "BlockMeta"

\* Variant: the transfer is spawned, not awaited, so the loop goes on reading.
AtStreamNextWhileExecuting == invPc \in {"Idle", "Executing"}

\* stream.next().await is reached only at the top of the loop, after the
\* body, make_transfer(..).await included, has run to its end.
AtStreamNext == invPc = "Idle"

\* Variant: a failed setup step is retried from the start.
OnSetupErrorRetry == "Connecting"

\* The `?` on connect and on subscribe_with_request: main returns the error.
OnSetupError == "Failed"

\* Variant: the Err arm prints and goes on with the next item.
OnStreamErrorContinue == "Idle"

\* Err(error) => { println!(..); break; } and the Ok(()) after the loop.
OnStreamError == "Closed"

\* .expect(..) on a failed ledger call inside make_transfer.
OnLedgerError == "Panicked"

\* The batch programs are separate binaries: none runs with the invoker.
BatchOff ==
    /\ program = "task3" /\ senderKeys = <<>> /\ recipients = <<>>
    /\ batch = <<>> /\ mainPc = "off" /\ pushed = 0
    /\ tasks = <<>> /\ resp = <<>> /\ readyQ = <<>>
    /\ yielded = <<>> /\ reported = <<>> /\ completion = <<>>
    /\ callLog = <<>> /\ ansLog = <<>>

InitInvoker ==
    /\ BatchOff
    /\ invPc = "Config"
    /\ invKey \in {"ok", "badLength", "badKey"}
    /\ invAddr \in {"valid", "malformed"}
    /\ xferLog = <<>> /\ xferAns = <<>>
    /\ feed \in UNION {[1..n -> Kinds] : n \in 0..MaxStream}
    /\ sent = 0 /\ taken = 0 /\ remoteClosed = FALSE
    /\ xfer = "none" /\ ledgerCalls = 0 /\ execs = 0
    /\ execStarted = 0 /\ nReported = 0 /\ lastOutcome = "none"
    /\ errReported = 0 /\ connects = 0 /\ subscribes = 0 /\ setupErr = "none"

\* The Transfer of the config: Keypair::from_bytes(..)? and Pubkey::from_str(..)?
\* return the error from main before anything is connected.
BuildTransfer ==
    /\ invPc = "Config"
    /\ invPc' = IF invKey = "ok" /\ invAddr = "valid" THEN "Connecting" ELSE "Failed"
    /\ UNCHANGED <<batchVars, invKey, invAddr, feed, sent, taken, remoteClosed, xfer,
                   ledgerCalls, execs, execStarted, nReported, lastOutcome,
                   errReported, connects, subscribes, setupErr, xferLog, xferAns>>

\* GeyserGrpcClient::build_from_shared(..)?.x_token(..)?.tls_config(..)?
\*     .connect().await?
Connect ==
    /\ invPc = "Connecting"
    /\ connects' = connects + 1
    /\ \E ok \in BOOLEAN :
          IF ok THEN invPc' = "Subscribing" /\ UNCHANGED setupErr
                ELSE invPc' = OnSetupError /\ setupErr' = "connect"
    /\ UNCHANGED <<batchVars, invKey, invAddr, feed, sent, taken, remoteClosed, xfer, ledgerCalls,
                   execs, execStarted, nReported, lastOutcome, errReported, subscribes, xferLog, xferAns>>

\* client.subscribe_with_request(Some(request)).await?
Subscribe ==
    /\ invPc = "Subscribing"
    /\ subscribes' = subscribes + 1
    /\ \E ok \in BOOLEAN :
          IF ok THEN invPc' = "Idle" /\ UNCHANGED setupErr
                ELSE invPc' = OnSetupError /\ setupErr' = "subscribe"
    /\ UNCHANGED <<batchVars, invKey, invAddr, feed, sent, taken, remoteClosed, xfer, ledgerCalls,
                   execs, execStarted, nReported, lastOutcome, errReported, connects, xferLog, xferAns>>

\* The service puts its next item on the transport of the open subscription.
Arrive ==
    /\ invPc \in {"Idle", "Executing"}
    /\ sent < Len(feed)
    /\ sent' = sent + 1
    /\ UNCHANGED <<batchVars, invKey, invAddr, invPc, feed, taken, remoteClosed, xfer, ledgerCalls,
                   execs, execStarted, nReported, lastOutcome, errReported,
                   connects, subscribes, setupErr, xferLog, xferAns>>

\* The service closes the stream after its last item.
RemoteClose ==
    /\ invPc \in {"Idle", "Executing"}
    /\ sent = Len(feed)
    /\ ~remoteClosed
    /\ remoteClosed' = TRUE
    /\ UNCHANGED <<batchVars, invKey, invAddr, invPc, feed, sent, taken, xfer, ledgerCalls,
                   execs, execStarted, nReported, lastOutcome, errReported,
                   connects, subscribes, setupErr, xferLog, xferAns>>

\* stream.next().await returns Some(update): one iteration of the loop up to
\* its next await.  A BlockMeta message starts make_transfer, whose first poll
\* issues get_latest_blockhash; any other message falls through to the next
\* iteration; an Err item is printed and breaks the loop.
TakeItem ==
    /\ AtStreamNext
    /\ taken < sent
    /\ taken' = taken + 1
    /\ LET item == feed[taken + 1]
       IN  CASE item = "Error" ->
                  /\ errReported' = errReported + 1
                  /\ invPc' = OnStreamError
                  /\ UNCHANGED <<xfer, ledgerCalls, execs, execStarted, xferLog, xferAns>>
             [] Qualifies(item) ->
                  /\ invPc' = "Executing"
                  /\ xfer' = "awaitBlockhash"
                  /\ xferLog' = <<CallOf("awaitBlockhash")>>
                  /\ xferAns' = <<>>
                  /\ ledgerCalls' = ledgerCalls + 1
                  /\ execs' = execs + 1
                  /\ execStarted' = execStarted + 1
                  /\ UNCHANGED errReported
             [] OTHER ->
                  UNCHANGED <<invPc, xfer, ledgerCalls, execs, execStarted, errReported,
                              xferLog, xferAns>>
    /\ UNCHANGED <<batchVars, invKey, invAddr, feed, sent, remoteClosed, nReported, lastOutcome,
                   connects, subscribes, setupErr>>

\* stream.next().await returns None: the loop ends and main returns Ok(()).
StreamEnd ==
    /\ AtStreamNext
    /\ taken = sent
    /\ remoteClosed
    /\ invPc' = "Closed"
    /\ UNCHANGED <<batchVars, invKey, invAddr, feed, sent, taken, remoteClosed, xfer, ledgerCalls,
                   execs, execStarted, nReported, lastOutcome, errReported,
                   connects, subscribes, setupErr, xferLog, xferAns>>

\* The ledger answers the call make_transfer is suspended on and the
\* invoker resumes: the next call is issued, or the result is returned and
\* printed, or .expect(..) panics.
LedgerRespond ==
    /\ invPc = "Executing"
    /\ \E r \in OutcomesFor(xfer) :
          LET p == PollTransfer(xfer, "valid", r)
          IN
           /\ xferAns' = Append(xferAns, r)
           /\ xferLog' = IF p.ret = "pending" THEN Append(xferLog, CallOf(p.next))
                         ELSE xferLog
           /\ CASE p.ret = "pending" ->
                     /\ xfer' = p.next
                     /\ ledgerCalls' = (ledgerCalls - 1) + 1
                     /\ UNCHANGED <<invPc, execs, nReported, lastOutcome>>
                [] p.ret = "ok" ->
                     /\ xfer' = "none"
                     /\ ledgerCalls' = ledgerCalls - 1
                     /\ execs' = execs - 1
                     /\ nReported' = nReported + 1
                     /\ lastOutcome' = Outcome(r)
                     /\ invPc' = "Idle"
                [] OTHER ->
                     /\ xfer' = "none"
                     /\ ledgerCalls' = ledgerCalls - 1
                     /\ execs' = execs - 1
                     /\ invPc' = OnLedgerError
                     /\ UNCHANGED <<nReported, lastOutcome>>
    /\ UNCHANGED <<batchVars, invKey, invAddr, feed, sent, taken, remoteClosed, execStarted,
                   errReported, connects, subscribes, setupErr>>

\* How the process of task3 ends: main returns Ok(()) after the loop, returns
\* an Err through `?`, or is unwound by a panic.
ExitOf(pc) ==
    CASE pc = "Closed"   -> "success"
      [] pc = "Failed"   -> "failure"
      [] pc = "Panicked" -> "panic"
      [] OTHER           -> "running"

NextInvoker ==
    BuildTransfer \/ Connect \/ Subscribe \/ Arrive \/ RemoteClose \/ TakeItem \/ StreamEnd \/ LedgerRespond

SpecInvoker == InitInvoker /\ [][NextInvoker]_vars

\* Any one of the three programs.
Init == InitBatch \/ InitInvoker

Next == NextBatch \/ NextInvoker

Spec == Init /\ [][Next]_vars

---------------------------------------------------------------------------
(* Properties of the batch programs (task1, task2).                        *)

\* The operations whose outcome is determined.
Completed == Range(completion)
\* The operations tasks.next() has returned an item for.
Observed == Range(OpsOf(yielded))
\* The ledger call of operation j is outstanding and unanswered.
Stalled(j) == tasks[j] \in {"awaitBalance", "awaitBlockhash", "awaitSend", "awaitStatus"}
              /\ resp[j] = "nothing"
\* Operation i got an error response to the call of stage st.
FailedAt(i, st) == tasks[i] = st /\ resp[i] = "err"

\* C1 (count preservation): when the run of a batch of N operations has
\* ended, the drain has produced exactly N items (results or errors), one
\* per input operation, whichever operations failed.
C1_CountPreservation ==
    Ended => Len(yielded) = N /\ Observed = Ops

\* C2 (fault isolation): in a transfer batch, when the blockhash fetch or
\* the submit of operation i has failed and the run has ended, i has its
\* own per-operation error item and every other operation j has been
\* observed by the drain (and reported if it succeeded).
C2_FaultIsolation ==
    program = "task2" =>
        \A i, j \in Ops :
            (i # j /\ (FailedAt(i, "awaitBlockhash") \/ FailedAt(i, "awaitSend")) /\ Ended)
                => /\ \E k \in 1..Len(yielded) : yielded[k] = [op |-> i, res |-> "err"]
                   /\ j \in Observed
                   /\ Len(yielded) = N

\* C3 (completion order): the drain observes operations in the order in
\* which their outcomes were determined: whenever operation a completed
\* before operation b and b has been observed, a was observed before b.
\* (The observed operations are a prefix of the completion order.)
C3_CompletionOrder ==
    /\ Len(yielded) <= Len(completion)
    /\ \A k \in 1..Len(yielded) : yielded[k].op = completion[k]

\* C3 witness: two results drained in the reverse of their submission order.
C3_Witness ==
    /\ Len(yielded) >= 2
    /\ yielded[1].op > yielded[2].op
    /\ Len(reported) >= 2

\* The final ledger response of operation i has arrived and waits to be read.
HasResult(i) == tasks[i] \in {"awaitBalance", "awaitStatus"} /\ resp[i] # "nothing"

\* C7 (non-interference of progress): while some operation j is stalled on
\* an unanswered ledger call, every other operation whose final response has
\* arrived gets its result yielded and reported: it is never left unread
\* with the drain over.
C7_NonInterference ==
    \A i, j \in Ops :
        (i # j /\ Stalled(j) /\ HasResult(i)) => mainPc = "drain"

\* The outcome of operation i is in: its future has returned, or the
\* response that ends it has arrived.
Finished(i) ==
    \/ tasks[i] = "done"
    \/ /\ resp[i] # "nothing"
       /\ IsFinal(tasks[i], resp[i])

\* C8 (drain termination): when each of the N operations has completed,
\* successfully or not, and the run has ended, the drain has yielded N items.
C8_DrainTermination ==
    ((\A i \in Ops : Finished(i)) /\ Ended) => Len(yielded) = N

---------------------------------------------------------------------------
(* Properties of the invoker (task3).                                      *)

\* Number of items of kind k among the first n items of the feed.
CountKind(k, n) == Cardinality({x \in 1..n : feed[x] = k})

\* C4 (mutual exclusion): the invoker never has two make_transfer
\* executions in flight, and never more than one ledger call in flight.
C4_MutualExclusion ==
    /\ execs <= 1
    /\ ledgerCalls <= 1

\* C4 witness: a second transfer is executing, its ledger call in flight,
\* while another block-meta notification waits unread on the transport.
C4_Witness ==
    /\ invPc = "Executing"
    /\ ledgerCalls = 1
    /\ execStarted >= 2
    /\ Len(Unread) >= 1
    /\ Head(Unread) = "BlockMeta"

\* C5 (filtering correctness): the number of transfers executed is at all
\* times the number of block-meta notifications consumed; once the whole
\* stream of N block-meta and M other notifications is consumed and handled,
\* N transfers are executed and N results reported; consuming a
\* notification of another kind changes neither the ledger calls nor the
\* reported results and leaves the invoker Idle.
C5_Filtering ==
    /\ [](execStarted = CountKind("BlockMeta", taken))
    /\ []((invPc \in {"Idle", "Closed"} /\ taken = Len(feed) /\ CountKind("Error", taken) = 0)
            => /\ execStarted = CountKind("BlockMeta", Len(feed))
               /\ nReported = CountKind("BlockMeta", Len(feed)))
    /\ [][(taken' = taken + 1 /\ feed[taken'] = "Other")
            => /\ invPc = "Idle" /\ invPc' = "Idle"
               /\ ledgerCalls' = ledgerCalls /\ execs' = execs
               /\ execStarted' = execStarted /\ nReported' = nReported]_vars

\* C5 witness: a stream of 2 block-meta and 2 other notifications, an other
\* one first and one in between, is wholly consumed with 2 results reported.
C5_Witness ==
    /\ taken = Len(feed)
    /\ invPc = "Idle"
    /\ CountKind("BlockMeta", taken) = 2
    /\ CountKind("Other", taken) = 2
    /\ feed[1] = "Other"
    /\ feed[3] = "Other"
    /\ nReported = 2

\* The stream of the end-to-end scenario.
Scenario == <<"Other", "BlockMeta", "Other", "BlockMeta", "Error">>

\* C6 (stream error is terminal): once an error item has been consumed it
\* has been reported once, the invoker is Closed (main returned Ok, nothing
\* unwound), the error is the last item consumed and no transfer or ledger
\* call is in flight; for the scenario stream the invoker ends Closed with
\* exactly 2 transfers executed.
C6_StreamErrorTerminal ==
    /\ errReported = CountKind("Error", taken)
    /\ CountKind("Error", taken) > 0
         => /\ invPc = "Closed"
            /\ errReported = 1
            /\ feed[taken] = "Error"
            /\ execs = 0 /\ ledgerCalls = 0
            /\ execStarted = CountKind("BlockMeta", taken - 1)
    /\ (feed = Scenario /\ invPc = "Closed")
         => /\ taken = 5
            /\ execStarted = 2
            /\ nReported = 2

\* C6 witness: the scenario stream has been run to its end.
C6_Witness ==
    /\ feed = Scenario
    /\ invPc = "Closed"
    /\ errReported = 1
    /\ execStarted = 2

\* C9 (termination only by stream end-of-life): once subscribed, the
\* invoker stops only in Closed, and only because the stream ended or
\* yielded an error item; a failed ledger call of a triggered transfer does
\* not stop it.
C9_TerminationOnlyByStream ==
    invPc \in {"Closed", "Panicked"}
        => /\ invPc = "Closed"
           /\ \/ (taken > 0 /\ feed[taken] = "Error")
              \/ (taken = sent /\ remoteClosed)

\* C10 (connect/subscribe failure is fatal and pre-emptive): once connect or
\* subscribe has failed, main has returned the error, each setup step was
\* attempted at most once, no stream item was consumed and no transfer run.
C10_SetupFailureFatal ==
    setupErr # "none"
        => /\ invPc = "Failed"
           /\ connects = 1
           /\ subscribes = (IF setupErr = "connect" THEN 0 ELSE 1)
           /\ taken = 0
           /\ execStarted = 0
           /\ ledgerCalls = 0

\* C10 witness: the subscription failed although the service had
\* notifications to send.
C10_Witness ==
    /\ setupErr = "subscribe"
    /\ invPc = "Failed"
    /\ Len(feed) > 0
    /\ feed[1] = "BlockMeta"

\* C11 (exit signal of streaming mode): when the invoker has stopped because
\* the last item it consumed is a stream error, the process ends with a
\* failure outcome, not with the success outcome of a clean stream close.
C11_ExitSignal ==
    (taken > 0 /\ feed[taken] = "Error") => ExitOf(invPc) = "failure"

\* The configuration of the batch run is malformed: a malformed address, a
\* sender key that is not 64 bytes or not a keypair, or lists of different length.
MalformedBatchConfig ==
    \/ \E k \in 1..Len(recipients) : recipients[k] = "malformed"
    \/ \E k \in 1..Len(senderKeys) : senderKeys[k] # "ok"
    \/ program = "task2" /\ Len(senderKeys) # Len(recipients)

\* No ledger call has been issued in the batch run.
NoLedgerCall == \A i \in DOMAIN callLog : callLog[i] = <<>>

\* C12 (validation precedes dispatch): in a run whose configuration is
\* malformed no ledger call is ever issued.
C12_ValidationPrecedesDispatch ==
    MalformedBatchConfig => NoLedgerCall

---------------------------------------------------------------------------
(* Properties of the transfer outcomes (task2 and task3).                  *)

\* The outcome the spec gives to each answer of the status lookup.
ExpectedOutcome == [someOk |-> "Confirmed", someErr |-> "ConfirmedWithError",
                    none |-> "StatusUnknown"]

\* C13 (ledger-reported outcomes are non-fatal): when a transfer reads the
\* answer of its status lookup and that answer is success, an execution
\* error or no determination, exactly one result is reported for it, with
\* outcome Confirmed, ConfirmedWithError or StatusUnknown respectively, and
\* the drain (task2) or the invoker loop (task3) goes on.
C13_LedgerOutcomesNonFatal ==
    /\ [][\A i \in Ops :
            (/\ tasks[i] = "awaitStatus"
             /\ resp[i] \in DOMAIN ExpectedOutcome
             /\ ansLog'[i] # ansLog[i])
            => /\ reported' = Append(reported, [op |-> i, outcome |-> ExpectedOutcome[resp[i]]])
               /\ mainPc' = "drain"]_vars
    /\ [][(/\ xfer = "awaitStatus"
           /\ xferAns' # xferAns
           /\ xferAns'[Len(xferAns')] \in DOMAIN ExpectedOutcome)
            => /\ nReported' = nReported + 1
               /\ lastOutcome' = ExpectedOutcome[xferAns'[Len(xferAns')]]
               /\ invPc' = "Idle"]_vars

\* C13 witness: a transfer batch has reported one result of each outcome.
C13_Witness ==
    /\ program = "task2"
    /\ Len(reported) = 3
    /\ {reported[k].outcome : k \in 1..3} = {"Confirmed", "ConfirmedWithError", "StatusUnknown"}
    /\ mainPc = "drain"

\* The status lookup of batch transfer i, or of the invoker's current
\* transfer, was answered with a failure after a successful submit.
StatusQueryFailed(i) ==
    Len(ansLog[i]) = 3 /\ ansLog[i][2] = "ok" /\ ansLog[i][3] = "err"

InvokerStatusQueryFailed ==
    Len(xferAns) = 3 /\ xferAns[2] = "ok" /\ xferAns[3] = "err"

\* C14 (a failed status lookup is captured in the result): when the status
\* lookup of a transfer fails after a successful submit, the transfer still
\* yields a result that is reported, and neither the batch run nor the
\* invoker is aborted.
C14_StatusFailureCaptured ==
    /\ \A i \in Ops :
         (program = "task2" /\ StatusQueryFailed(i))
         => /\ mainPc \notin {"panicked", "failed"}
            /\ \E k \in 1..Len(reported) : reported[k].op = i
    /\ InvokerStatusQueryFailed
         => /\ invPc \notin {"Panicked", "Failed"}
            /\ nReported = execStarted

---------------------------------------------------------------------------
(* Properties of the dispatch pool's submission (task1 and task2).         *)

\* Operation i has been handed to the pool.
Submitted(i) == tasks[i] # "unpushed"

\* Operation i has been polled: its future has begun to run.
Polled(i) == tasks[i] \notin {"unpushed", "created"}

\* C16 (no concurrency ceiling): all N operations are pushed into the pool
\* before the pool yields its first result and before any of them is polled;
\* every push happens while no operation has received any response, so no
\* push waits for a sibling to complete; operations are pushed one by one in
\* batch order, each once, and no future is polled for the first time after
\* a result has been yielded; the first ledger call of an operation is
\* issued at most once.
C16_NoConcurrencyCeiling ==
    /\ [](yielded # <<>> => pushed = N)
    /\ []((\E i \in Ops : Polled(i)) => pushed = N)
    /\ [](\A i \in Ops : Submitted(i) <=> i <= pushed)
    /\ [](\A i \in Ops : Cardinality({k \in 1..Len(readyQ) : readyQ[k] = i}) <= 1)
    /\ [](\A i \in Ops : Cardinality({k \in 1..Len(callLog[i]) : callLog[i][k] = callLog[i][1]}) <= 1)
    /\ [][pushed' # pushed =>
            /\ pushed' = pushed + 1
            /\ tasks[pushed'] = "unpushed" /\ tasks'[pushed'] # "unpushed"
            /\ \A j \in Ops : resp[j] = "nothing" /\ ansLog[j] = <<>>
            /\ yielded = <<>>]_vars
    /\ [][\A j \in Ops : (~Polled(j) /\ Polled(j)') => yielded = <<>>]_vars

\* C16 witness: a batch of three, all three polled and suspended on their
\* first ledger call at the same time, nothing yielded yet.
C16_Witness ==
    /\ N = 3
    /\ \A i \in Ops : tasks[i] \in {"awaitBalance", "awaitBlockhash"} /\ resp[i] = "nothing"
    /\ yielded = <<>>

---------------------------------------------------------------------------
(* Properties of the steps of one transfer (task2 and task3).              *)

\* The ledger calls of a transfer, in the order the spec gives them.
TransferSteps ==
    <<"get_latest_blockhash", "send_and_confirm_transaction", "get_signature_status">>

IsPrefix(s, t) == Len(s) <= Len(t) /\ \A k \in 1..Len(s) : s[k] = t[k]

\* The calls in log were issued in step order, and each call after the first
\* was issued only after the call before it had been answered with success.
InStepOrder(log, ans) ==
    /\ IsPrefix(log, TransferSteps)
    /\ \A k \in 2..Len(log) : Len(ans) >= k - 1 /\ ans[k - 1] = "ok"

\* C17 (step ordering inside one transfer): the ledger calls of one transfer
\* are issued in the order fetch-blockhash, submit-and-confirm, query-status;
\* submit-and-confirm is issued only after the blockhash fetch of the same
\* transfer succeeded, and the status query only after its submit-and-confirm
\* returned a signature.  Holds for every transfer of a batch and for the
\* current transfer of the invoker.
C17_StepOrdering ==
    /\ program = "task2" => \A i \in Ops : InStepOrder(callLog[i], ansLog[i])
    /\ InStepOrder(xferLog, xferAns)

\* C17 witness: one transfer of a batch has gone through all three steps
\* while a sibling has only fetched its blockhash.
C17_Witness ==
    /\ program = "task2"
    /\ \E i, j \in Ops :
          /\ callLog[i] = TransferSteps /\ Len(ansLog[i]) = 3
          /\ Len(callLog[j]) = 1

---------------------------------------------------------------------------
(* Properties of the invoker's reading of the stream (task3).              *)

\* Notifications taken from the transport whose handling is not over: a
\* transfer was started for them and its result is not reported yet.
InHandling == execStarted - nReported

\* C18 (backpressure by sequential draining): the invoker takes an item from
\* the stream only when it is Idle and every transfer started so far has
\* been reported; at most one taken notification is in handling at any time,
\* and it is in handling exactly while the invoker is Executing (or was
\* unwound out of it); an arrival during an execution is not read by it: it
\* stays on the transport and the invoker stays Executing.
C18_Backpressure ==
    /\ [](InHandling \in {0, 1})
    /\ [](InHandling = 1 <=> invPc \in {"Executing", "Panicked"})
    /\ [][taken' # taken =>
            /\ invPc = "Idle"
            /\ taken' = taken + 1
            /\ execStarted = nReported]_vars
    /\ [][(invPc = "Executing" /\ sent' # sent) =>
            /\ taken' = taken
            /\ invPc' = "Executing"
            /\ Len(Unread') = Len(Unread) + 1]_vars

\* C18 witness: after one transfer was reported, the next one is executing
\* while two further notifications wait unread on the transport.
C18_Witness ==
    /\ invPc = "Executing"
    /\ nReported >= 1
    /\ Len(Unread) >= 2

---------------------------------------------------------------------------
(* Properties of the drain of the balance batch (task1).                   *)

\* C19 (the drain stops at the first drained error, task1): an error item
\* yielded by the pool is the last item the drain receives; main has
\* returned with it; exactly the results drained before it are reported and
\* nothing is reported or polled after it, whatever the other operations
\* have received or would receive.
C19_DrainStopsAtFirstError ==
    /\ [](program = "task1" =>
            \A k \in 1..Len(yielded) :
               yielded[k].res = "err"
               => /\ k = Len(yielded)
                  /\ mainPc = "failed"
                  /\ readyQ = <<>>
                  /\ Len(reported) = k - 1
                  /\ \A m \in 1..Len(reported) : reported[m].op = yielded[m].op)
    /\ [][(program = "task1" /\ mainPc = "failed")
            => reported' = reported /\ yielded' = yielded /\ tasks' = tasks]_vars

\* C19 witness: of three balance operations one was reported, one was
\* drained as an error, and the third holds a successful response that is
\* never read.
C19_Witness ==
    /\ program = "task1"
    /\ mainPc = "failed"
    /\ Len(reported) = 1
    /\ Len(yielded) = 2
    /\ \E j \in Ops : tasks[j] = "awaitBalance" /\ resp[j] = "ok"

---------------------------------------------------------------------------
(* Counting in the dispatch pool (task1 and task2).                        *)

\* The operations handed to the pool so far.
Started == {i \in Ops : Submitted(i)}

\* The operations a result has been reported for.
ReportedOps == Range(OpsOf(reported))

\* C20 (reporting invariant of the batch pool): in every reachable state,
\* reported results <= completed operations <= started operations <= N; no
\* operation is reported twice; a result is reported only for an operation
\* that has completed and been yielded; an operation completes only after
\* it has been started, and by a response only after it has been polled.
C20_ReportingInvariant ==
    /\ Len(reported) <= Cardinality(Completed)
    /\ Cardinality(Completed) <= Cardinality(Started)
    /\ Cardinality(Started) <= N
    /\ Cardinality(ReportedOps) = Len(reported)
    /\ Cardinality(Completed) = Len(completion)
    /\ ReportedOps \subseteq Completed
    /\ ReportedOps \subseteq Observed
    /\ Completed \subseteq Started
    /\ \A i \in Completed : Polled(i) \/ batch[i] = "malformed"

\* C20 witness: three operations started, two of them completed, one of
\* these reported, the drain still running.
C20_Witness ==
    /\ mainPc = "drain"
    /\ Cardinality(Started) = 3
    /\ Cardinality(Completed) = 2
    /\ Len(reported) = 1

====
